---- MODULE Spec2Model ----
(***************************************************************************)
(* A state-machine model of GameEngine (src/src/lib/gameEngine.ts): the    *)
(* session controller (start / stop / restart / frame callbacks), the      *)
(* input sampler (keydown / keyup) and the per-tick logic step             *)
(* (updatePlayer, updateEnemies, checkCollisions, checkWinCondition).      *)
(*                                                                         *)
(* Numbers.  The engine computes in IEEE 754 doubles, and so does the      *)
(* model.  Scenario coordinates, speeds, sizes, widths and heights are     *)
(* integers, the sizes, widths and heights even, so size/2 and width/2 are *)
(* integers; on integers of this size the double arithmetic of +, - and *  *)
(* is exact, and the model computes in TLA+ integers.  The only results    *)
(* that need not be integers are the pushed positions                      *)
(*     centre + (d / Math.sqrt(dx*dx + dy*dy)) * pushDistance              *)
(* and what later moves and pushes make of them.  They are computed        *)
(* operation by operation as the code computes them, each result rounded   *)
(* to 53 bits (fsub, fmul, fadd, fsqrt, fdiv).  A                          *)
(* position whose coordinates both are integers is the record              *)
(* [x, y, size] of integers.  Any other position is the record             *)
(*     [x, y, size, dbl |-> TRUE]                                          *)
(* whose x and y are doubles [neg, m, e]: the number (-1)^neg * m * 2^e,   *)
(* m a 53-bit natural number written as limbs of 15 bits, lowest first.    *)
(* Enemies, collectibles and obstacles keep integer coordinates.           *)
(*                                                                         *)
(* Frame handles.  requestAnimationFrame returns ever-increasing handles;  *)
(* only their identity matters, so the model hands out the smallest handle *)
(* that is not pending.  animationId = Null (0) models null.               *)
(***************************************************************************)
EXTENDS Integers, Sequences, FiniteSets

VARIABLES
    gameData,      \* the scenario handed to the constructor
    isRunning,     \* GameEngine.isRunning
    animationId,   \* GameEngine.animationId (Null = null)
    pending,       \* frame callbacks requested and neither fired nor cancelled
    player,        \* [x, y, size]
    enemies,       \* sequence of [x, y, size, speedX, speedY]
    collectibles,  \* sequence of [x, y, size, points, collected]
    obstacles,     \* sequence of [x, y, width, height]
    score,
    lives,
    keys,          \* the key names k with this.keys[k] === true
    started,       \* history: start() or restart() has been called on this engine
    ev             \* history: what the last handler did, in order. ev[1] names the
                   \* handler and the phase it was entered in; then come its logic
                   \* steps ("update"), render passes ("render"), frame requests
                   \* ("raf") and observer calls with their argument

vars == <<gameData, isRunning, animationId, pending, player, enemies,
          collectibles, obstacles, score, lives, keys, started, ev>>

----------------------------------------------------------------------------
(* Bounds of the model *)

\* start() and restart() are not taken when they would leave more than
\* this many frame callbacks pending
MaxPending == 2

\* a handler is not taken when it would leave lives below -MaxOverkill
MaxOverkill == 1

(* Program constants *)
Null == 0
playerSpeed == 5
InitialLives == 3
enemyPushDistance == 50
obstaclePushMargin == 10

----------------------------------------------------------------------------
(* Scenarios (GameData values) *)

\* two enemies on the same spot guarding a collectible, a second collectible
\* on the way to them
DuelScenario ==
    [ canvasWidth  |-> 100,
      canvasHeight |-> 20,
      player       |-> [x |-> 20, y |-> 10, size |-> 20],
      enemies      |-> << [x |-> 70, y |-> 10, size |-> 20, speedX |-> 0, speedY |-> 0],
                          [x |-> 70, y |-> 10, size |-> 20, speedX |-> 0, speedY |-> 0] >>,
      collectibles |-> << [x |-> 68, y |-> 10, size |-> 10, points |-> 10],
                          [x |-> 40, y |-> 10, size |-> 10, points |-> 5] >>,
      obstacles    |-> << >> ]

\* obstacles only: no enemy, no collectible
ObstacleOnlyScenario ==
    [ canvasWidth  |-> 60,
      canvasHeight |-> 20,
      player       |-> [x |-> 10, y |-> 10, size |-> 20],
      enemies      |-> << >>,
      collectibles |-> << >>,
      obstacles    |-> << [x |-> 20, y |-> 0, width |-> 10, height |-> 20] >> ]

\* one enemy sweeping the arena from wall to wall, one collectible
PatrolScenario ==
    [ canvasWidth  |-> 100,
      canvasHeight |-> 20,
      player       |-> [x |-> 30, y |-> 10, size |-> 20],
      enemies      |-> << [x |-> 50, y |-> 10, size |-> 20, speedX |-> 40, speedY |-> 0] >>,
      collectibles |-> << [x |-> 45, y |-> 10, size |-> 10, points |-> 10] >>,
      obstacles    |-> << >> ]

Scenarios == {DuelScenario, ObstacleOnlyScenario, PatrolScenario}

\* the keys the host delivers
KeyNames == {"ArrowLeft", "ArrowRight"}

\* a one-row arena crossed by an obstacle that is wider than the player, with
\* a collectible behind it
WideObstacleScenario ==
    [ canvasWidth  |-> 100,
      canvasHeight |-> 20,
      player       |-> [x |-> 10, y |-> 10, size |-> 20],
      enemies      |-> << >>,
      collectibles |-> << [x |-> 90, y |-> 10, size |-> 10, points |-> 10] >>,
      obstacles    |-> << [x |-> 30, y |-> 0, width |-> 40, height |-> 20] >> ]

\* a 60 x 40 arena with the player at (px, py), one enemy at (ex, ey) moving
\* by (sx, sy) per tick, and two collectibles side by side in the lower right
\* corner
GridArena(px, py, ex, ey, sx, sy) ==
    [ canvasWidth  |-> 60,
      canvasHeight |-> 40,
      player       |-> [x |-> px, y |-> py, size |-> 20],
      enemies      |-> << [x |-> ex, y |-> ey, size |-> 20, speedX |-> sx, speedY |-> sy] >>,
      collectibles |-> << [x |-> 50, y |-> 30, size |-> 4, points |-> 1],
                          [x |-> 46, y |-> 30, size |-> 4, points |-> 2] >>,
      obstacles    |-> << >> ]

\* a 160 x 140 arena with a player of size ps standing on the rim of a small
\* enemy, and behind it a giant enemy: half the sizes of the player and the
\* giant add up to more than the 50 of the push, and a player pushed away
\* from the small enemy lands inside the giant
GiantArena(ps) ==
    [ canvasWidth  |-> 160,
      canvasHeight |-> 140,
      player       |-> [x |-> 40, y |-> 50, size |-> ps],
      enemies      |-> << [x |-> 34, y |-> 42, size |-> 20, speedX |-> 0, speedY |-> 0],
                          [x |-> 100, y |-> 90, size |-> 100, speedX |-> 0, speedY |-> 0] >>,
      collectibles |-> << [x |-> 150, y |-> 130, size |-> 4, points |-> 1] >>,
      obstacles    |-> << >> ]

\* the player starts in the middle, next to it, or in the upper left corner;
\* the enemy stands in the middle, or crosses the arena diagonally and runs
\* past its walls; or the player stands between a small enemy and a giant
GridScenarios ==
    { GridArena(p[1], p[2], e[1], e[2], e[3], e[4]) :
        p \in { <<30, 20>>, <<25, 20>>, <<10, 10>> },
        e \in { <<30, 20, 0, 0>>, <<15, 27, 15, -7>>, <<45, 13, -15, 7>> } }
      \cup {WideObstacleScenario}
      \cup {GiantArena(10), GiantArena(20)}

\* the keys held for the whole session of a grid scenario
GridKeys == {"ArrowLeft", "ArrowRight", "ArrowUp", "ArrowDown"}

----------------------------------------------------------------------------
(* Arithmetic helpers *)

Max(a, b) == IF a >= b THEN a ELSE b
Min(a, b) == IF a <= b THEN a ELSE b
Abs(a) == IF a < 0 THEN -a ELSE a

Sign(a) == IF a > 0 THEN 1 ELSE IF a < 0 THEN -1 ELSE 0

----------------------------------------------------------------------------
(* Natural numbers of any size: sequences of limbs, least significant      *)
(* first, without leading zero limbs; << >> is 0                           *)

LimbBits == 15
Base == 32768

RECURSIVE BNorm(_)
BNorm(a) ==
    IF a = << >> THEN a
    ELSE IF a[Len(a)] = 0 THEN BNorm(SubSeq(a, 1, Len(a) - 1)) ELSE a

RECURSIVE BFromInt(_)
BFromInt(n) == IF n = 0 THEN << >> ELSE << n % Base >> \o BFromInt(n \div Base)

RECURSIVE BToInt(_)
BToInt(a) == IF a = << >> THEN 0 ELSE a[1] + Base * BToInt(Tail(a))

Limb(a, i) == IF i <= Len(a) THEN a[i] ELSE 0

RECURSIVE BAddC(_, _, _, _)
BAddC(a, b, i, c) ==
    IF i > Len(a) /\ i > Len(b) THEN (IF c = 0 THEN << >> ELSE << c >>)
    ELSE LET s == Limb(a, i) + Limb(b, i) + c
         IN << s % Base >> \o BAddC(a, b, i + 1, s \div Base)
BAdd(a, b) == BAddC(a, b, 1, 0)

\* a - b for a >= b
RECURSIVE BSubC(_, _, _, _)
BSubC(a, b, i, c) ==
    IF i > Len(a) THEN << >>
    ELSE LET s == a[i] - Limb(b, i) - c
         IN IF s < 0 THEN << s + Base >> \o BSubC(a, b, i + 1, 1)
            ELSE << s >> \o BSubC(a, b, i + 1, 0)
BSub(a, b) == BNorm(BSubC(a, b, 1, 0))

RECURSIVE BCmpAt(_, _, _)
BCmpAt(a, b, i) ==
    IF i = 0 THEN 0
    ELSE IF a[i] > b[i] THEN 1
    ELSE IF a[i] < b[i] THEN -1
    ELSE BCmpAt(a, b, i - 1)
\* the sign of a - b
BCmp(a, b) ==
    IF Len(a) > Len(b) THEN 1
    ELSE IF Len(a) < Len(b) THEN -1
    ELSE BCmpAt(a, b, Len(a))

\* a * k for 0 <= k < Base
RECURSIVE BMulC(_, _, _, _)
BMulC(a, k, i, c) ==
    IF i > Len(a) THEN (IF c = 0 THEN << >> ELSE << c >>)
    ELSE LET s == a[i] * k + c
         IN << s % Base >> \o BMulC(a, k, i + 1, s \div Base)
BMulSmall(a, k) == IF k = 0 THEN << >> ELSE BMulC(a, k, 1, 0)

\* a * Base^n
BShlLimbs(a, n) == IF a = << >> THEN a ELSE [i \in 1..n |-> 0] \o a

RECURSIVE BMulAt(_, _, _)
BMulAt(a, b, i) ==
    IF i > Len(b) THEN << >>
    ELSE BAdd(BShlLimbs(BMulSmall(a, b[i]), i - 1), BMulAt(a, b, i + 1))
BMul(a, b) == BMulAt(a, b, 1)

\* a * 2^k and the integer part of a / 2^k
BShl(a, k) == BShlLimbs(BMulSmall(a, 2 ^ (k % LimbBits)), k \div LimbBits)
BShr(a, k) ==
    LET n == k \div LimbBits
        p == 2 ^ (k % LimbBits)
        t == IF n >= Len(a) THEN << >> ELSE SubSeq(a, n + 1, Len(a))
    IN BNorm([i \in 1..Len(t) |-> (t[i] \div p) + (Limb(t, i + 1) % p) * (Base \div p)])

\* bit i of a (bit 0 is the lowest), and whether the k lowest bits are 0
BBit(a, i) == (Limb(a, i \div LimbBits + 1) \div (2 ^ (i % LimbBits))) % 2
BLowZero(a, k) == BShl(BShr(a, k), k) = a

\* the number of bits of a
RECURSIVE IntBits(_)
IntBits(n) == IF n = 0 THEN 0 ELSE 1 + IntBits(n \div 2)
BBits(a) == IF a = << >> THEN 0 ELSE LimbBits * (Len(a) - 1) + IntBits(a[Len(a)])

\* the integer part of the square root of an integer 0 <= n < 2^31, by
\* bisection (46340 is the largest root there is)
RECURSIVE IsqrtIn(_, _, _)
IsqrtIn(n, lo, hi) ==
    IF lo = hi THEN lo
    ELSE LET mid == (lo + hi + 1) \div 2
         IN IF mid * mid <= n THEN IsqrtIn(n, mid, hi) ELSE IsqrtIn(n, lo, mid - 1)
Isqrt(n) == IsqrtIn(n, 0, IF n < 46340 THEN n ELSE 46340)

\* one digit of the long division: the largest g with g * d <= r, for
\* r < d * Base and a divisor d whose top limb is Base / 2 or more; the
\* estimate from the top limbs is at most 2 too large
Digit(r, d) ==
    LET n    == Len(d)
        top  == (Limb(r, n + 1) * Base + Limb(r, n)) \div d[n]
        qhat == IF top < Base - 1 THEN top ELSE Base - 1
    IN IF BCmp(BMulSmall(d, qhat), r) <= 0 THEN qhat
       ELSE IF BCmp(BMulSmall(d, qhat - 1), r) <= 0 THEN qhat - 1
       ELSE qhat - 2

\* the long division of N by d, limb i of N being brought down next; r is
\* the remainder so far and q the quotient so far
RECURSIVE DivLimbs(_, _, _, _, _)
DivStep(N, d, i, r1, g, q) ==
    DivLimbs(N, d, i - 1, BSub(r1, BMulSmall(d, g)),
             IF q = << >> /\ g = 0 THEN << >> ELSE << g >> \o q)
DivLimbs(N, d, i, r, q) ==
    IF i = 0 THEN [q |-> q, rest |-> r # << >>]
    ELSE DivStep(N, d, i, BNorm(<< N[i] >> \o r),
                 Digit(BNorm(<< N[i] >> \o r), d), q)

\* the integer part q of N / d for d # 0, and whether a remainder is left;
\* N and d are shifted by sh bits to bring the top limb of d to Base / 2
BDivShifted(N1, d1) == DivLimbs(N1, d1, Len(N1), << >>, << >>)
BDivBy(N, d, sh) == BDivShifted(BShl(N, sh), BShl(d, sh))
BDiv(N, d) == BDivBy(N, d, LimbBits - IntBits(d[Len(d)]))

\* the integer part of the square root of N # 0, by Newton's iteration from
\* a start that is not below the root
RECURSIVE SqrtIter(_, _)
SqrtStep(N, x, y) == IF BCmp(y, x) >= 0 THEN x ELSE SqrtIter(N, y)
SqrtIter(N, x) == SqrtStep(N, x, BShr(BAdd(x, BDiv(N, x).q), 1))
BSqrtFrom(N, k) ==
    SqrtIter(N, BShl(BFromInt(Isqrt(BToInt(BShr(N, k))) + 1), k \div 2))
BSqrtBits(N, L) == BSqrtFrom(N, IF L <= 30 THEN 0 ELSE 2 * ((L - 29) \div 2))
BSqrt(N) == BSqrtBits(N, BBits(N))

----------------------------------------------------------------------------
(* IEEE 754 binary64 numbers (the `number` of the program) in the range    *)
(* where neither overflow nor underflow happens: [neg, m, e] is the number *)
(* (-1)^neg * m * 2^e with 2^52 <= m < 2^53, and m = << >> is 0.  Every    *)
(* operation is the exact result rounded to 53 bits, to nearest, ties to   *)
(* even.  A value that is used more than once is the parameter of an       *)
(* operator, so that it is computed once.                                  *)

MantBits == 53

Zero == [neg |-> FALSE, m |-> << >>, e |-> 0]

\* (-1)^neg * M * 2^E for M of L <= 53 bits: exact
Widen(neg, M, E, L) ==
    [neg |-> neg, m |-> BShl(M, MantBits - L), e |-> E - (MantBits - L)]

\* (-1)^neg * q * 2^E for q of 53 bits, or of 54 bits after a carry of the
\* rounding (q = 2^53)
Carry(neg, q, E) ==
    IF BBits(q) > MantBits THEN [neg |-> neg, m |-> BShr(q, 1), e |-> E + 1]
    ELSE [neg |-> neg, m |-> q, e |-> E]

\* q = M \div 2^k rounded up when the k bits cut off are more than half, or
\* half and q is odd
Nearest(M, k, q) ==
    IF BBit(M, k - 1) = 1 /\ (~BLowZero(M, k - 1) \/ BBit(q, 0) = 1)
    THEN BAdd(q, << 1 >>) ELSE q

Cut(neg, M, E, k) == Carry(neg, Nearest(M, k, BShr(M, k)), E + k)

RoundBits(neg, M, E, L) ==
    IF L <= MantBits THEN Widen(neg, M, E, L) ELSE Cut(neg, M, E, L - MantBits)

\* (-1)^neg * M * 2^E rounded
Round(neg, M, E) == IF M = << >> THEN Zero ELSE RoundBits(neg, M, E, BBits(M))

FromIntBits(n, M) == Widen(n < 0, M, 0, BBits(M))
FromInt(n) == IF n = 0 THEN Zero ELSE FromIntBits(n, BFromInt(IF n < 0 THEN -n ELSE n))

IsZero(a) == a.m = << >>

fneg(a) == IF IsZero(a) THEN a ELSE [a EXCEPT !.neg = ~@]

\* the sign of |a| - |b|
CmpMag(a, b) ==
    IF IsZero(a) THEN (IF IsZero(b) THEN 0 ELSE -1)
    ELSE IF IsZero(b) THEN 1
    ELSE IF a.e > b.e THEN 1
    ELSE IF a.e < b.e THEN -1
    ELSE BCmp(a.m, b.m)

\* the sign of a - b
fcmp(a, b) ==
    IF a.neg /\ ~b.neg THEN -1
    ELSE IF ~a.neg /\ b.neg THEN 1
    ELSE IF a.neg THEN -CmpMag(a, b) ELSE CmpMag(a, b)

flt(a, b) == fcmp(a, b) < 0
fle(a, b) == fcmp(a, b) <= 0

\* Math.max, Math.min
fmax(a, b) == IF flt(a, b) THEN b ELSE a
fmin(a, b) == IF flt(b, a) THEN b ELSE a

\* (-1)^na * Ma * 2^e + (-1)^nb * Mb * 2^e rounded, c the sign of Ma - Mb
AddSigned(na, Ma, nb, Mb, e, c) ==
    Round(IF na = nb \/ c > 0 THEN na ELSE IF c < 0 THEN nb ELSE FALSE,
          IF na = nb THEN BAdd(Ma, Mb)
          ELSE IF c >= 0 THEN BSub(Ma, Mb) ELSE BSub(Mb, Ma),
          e)
AddMant(na, Ma, nb, Mb, e) == AddSigned(na, Ma, nb, Mb, e, BCmp(Ma, Mb))
AddAt(a, b, e) == AddMant(a.neg, BShl(a.m, a.e - e), b.neg, BShl(b.m, b.e - e), e)

fadd(a, b) ==
    IF IsZero(a) THEN b
    ELSE IF IsZero(b) THEN a
    ELSE AddAt(a, b, IF a.e < b.e THEN a.e ELSE b.e)

fsub(a, b) == fadd(a, fneg(b))

fmul(a, b) ==
    IF IsZero(a) \/ IsZero(b) THEN Zero
    ELSE Round(a.neg # b.neg, BMul(a.m, b.m), a.e + b.e)

\* twice the integer part q, plus 1 when q is inexact: enough to round q
Sticky(q, inexact) == BAdd(BShl(q, 1), IF inexact THEN << 1 >> ELSE << >>)
StickyDiv(d) == Sticky(d.q, d.rest)

\* a / b for b # 0: 60 bits of the quotient of the mantissas and more, the
\* last bit saying whether the division left a remainder
fdiv(a, b) ==
    IF IsZero(a) THEN Zero
    ELSE Round(a.neg # b.neg, StickyDiv(BDiv(BShlLimbs(a.m, 4), b.m)),
               a.e - b.e - 4 * LimbBits - 1)

\* Math.sqrt(a) for a >= 0: 56 bits of the root of the mantissa, shifted to
\* an even exponent, the last bit saying whether the root is inexact
StickyRoot(N, r) == Sticky(r, BMul(r, r) # N)
RootOf(N, E) == Round(FALSE, StickyRoot(N, BSqrt(N)), E \div 2 - 1)
RootShifted(a, s) == RootOf(BShl(a.m, s), a.e - s)
fsqrt(a) ==
    IF IsZero(a) THEN Zero
    ELSE RootShifted(a, IF (a.e % 2) = 0 THEN MantBits + 5 ELSE MantBits + 6)

\* a is an integer, and that integer when it has fewer than 31 bits
IsInt(a) == IsZero(a) \/ a.e >= 0 \/ BLowZero(a.m, -a.e)
FitsInt(a) == IsInt(a) /\ (IsZero(a) \/ MantBits + a.e <= 30)
ToInt(a) ==
    IF IsZero(a) THEN 0
    ELSE (IF a.neg THEN -1 ELSE 1)
           * BToInt(IF a.e >= 0 THEN BShl(a.m, a.e) ELSE BShr(a.m, -a.e))

----------------------------------------------------------------------------
(* Positions *)

\* p has a coordinate that is no integer: p.x and p.y are doubles
IsDbl(p) == "dbl" \in DOMAIN p

\* the coordinates of p as doubles
NumX(p) == IF IsDbl(p) THEN p.x ELSE FromInt(p.x)
NumY(p) == IF IsDbl(p) THEN p.y ELSE FromInt(p.y)

\* p with this.player.x = x and this.player.y = y, for doubles x and y
Store(p, x, y) ==
    IF FitsInt(x) /\ FitsInt(y)
    THEN [x |-> ToInt(x), y |-> ToInt(y), size |-> p.size]
    ELSE [x |-> x, y |-> y, size |-> p.size, dbl |-> TRUE]

----------------------------------------------------------------------------
(* The engine object as a record, and its write-back *)

This ==
    [ gameData |-> gameData, isRunning |-> isRunning, animationId |-> animationId,
      pending |-> pending, player |-> player, enemies |-> enemies,
      collectibles |-> collectibles, obstacles |-> obstacles,
      score |-> score, lives |-> lives, keys |-> keys, started |-> started,
      ev |-> ev ]

Commit(s) ==
    /\ gameData' = s.gameData
    /\ isRunning' = s.isRunning
    /\ animationId' = s.animationId
    /\ pending' = s.pending
    /\ player' = s.player
    /\ enemies' = s.enemies
    /\ collectibles' = s.collectibles
    /\ obstacles' = s.obstacles
    /\ score' = s.score
    /\ lives' = s.lives
    /\ keys' = s.keys
    /\ started' = s.started
    /\ ev' = s.ev

\* the phase of the session controller: "idle" (constructed, never started),
\* "running", or "stopped" (not running, after a stop, a win or a loss)
Phase == IF isRunning THEN "running" ELSE IF started THEN "stopped" ELSE "idle"

\* the engine at the entry of the handler `name`
Call(name) ==
    [This EXCEPT !.ev = << [e |-> name, v |-> 0, phase |-> Phase] >>,
                 !.started = @ \/ name \in {"start", "restart"}]

\* one entry of the handler's log; the observer callbacks are the entries
\* "score" (onScoreChange), "lives" (onLivesChange), "won" (onGameWin) and
\* "lost" (onGameOver)
emit(s, e, v) == [s EXCEPT !.ev = Append(@, [e |-> e, v |-> v])]

----------------------------------------------------------------------------
(* initializeGame *)

\* initializeGame without the reset of lives
initializeGameKeepsLives(s) ==
    [s EXCEPT
        !.player = [x |-> s.gameData.player.x, y |-> s.gameData.player.y,
                    size |-> s.gameData.player.size],
        !.enemies = [i \in DOMAIN s.gameData.enemies |-> s.gameData.enemies[i]],
        !.collectibles = [i \in DOMAIN s.gameData.collectibles |->
                            [x |-> s.gameData.collectibles[i].x,
                             y |-> s.gameData.collectibles[i].y,
                             size |-> s.gameData.collectibles[i].size,
                             points |-> s.gameData.collectibles[i].points,
                             collected |-> FALSE]],
        !.obstacles = [i \in DOMAIN s.gameData.obstacles |-> s.gameData.obstacles[i]],
        !.score = 0]

initializeGame(s) ==
    [s EXCEPT
        !.player = [x |-> s.gameData.player.x, y |-> s.gameData.player.y,
                    size |-> s.gameData.player.size],
        !.enemies = [i \in DOMAIN s.gameData.enemies |-> s.gameData.enemies[i]],
        !.collectibles = [i \in DOMAIN s.gameData.collectibles |->
                            [x |-> s.gameData.collectibles[i].x,
                             y |-> s.gameData.collectibles[i].y,
                             size |-> s.gameData.collectibles[i].size,
                             points |-> s.gameData.collectibles[i].points,
                             collected |-> FALSE]],
        !.obstacles = [i \in DOMAIN s.gameData.obstacles |-> s.gameData.obstacles[i]],
        !.score = 0,
        !.lives = InitialLives]

----------------------------------------------------------------------------
(* Collision tests *)

\* Math.sqrt(dx*dx + dy*dy) < (size1 + size2) / 2; obj1 is the player, obj2
\* an enemy or a collectible (integer position).  For an integer position
\* of the player the test is made on the squares, where it is exact and
\* has the same outcome: dx*dx + dy*dy is an integer, and the square root
\* of an integer below the square of a half-integer t is below t by more
\* than the rounding of Math.sqrt
checkCircleCollision(obj1, obj2) ==
    IF ~IsDbl(obj1)
    THEN LET dx == obj1.x - obj2.x
             dy == obj1.y - obj2.y
         IN 4 * (dx * dx + dy * dy)
              < (obj1.size + obj2.size) * (obj1.size + obj2.size)
    ELSE LET Near(dx, dy) ==
                 flt(fsqrt(fadd(fmul(dx, dx), fmul(dy, dy))),
                     fdiv(FromInt(obj1.size + obj2.size), FromInt(2)))
         IN Near(fsub(obj1.x, FromInt(obj2.x)), fsub(obj1.y, FromInt(obj2.y)))

\* closest = Math.max(rect.x, Math.min(circle.x, rect.x + rect.width)), the
\* same for y, and dx*dx + dy*dy < (size / 2) * (size / 2)
checkRectCircleCollision(rect, circle) ==
    IF ~IsDbl(circle)
    THEN LET closestX == Max(rect.x, Min(circle.x, rect.x + rect.width))
             closestY == Max(rect.y, Min(circle.y, rect.y + rect.height))
             dx == circle.x - closestX
             dy == circle.y - closestY
         IN 4 * (dx * dx + dy * dy) < circle.size * circle.size
    ELSE LET Closest(c, low, length) ==
                 fmax(FromInt(low), fmin(c, FromInt(low + length)))
             Near(dx, dy, half) ==
                 flt(fadd(fmul(dx, dx), fmul(dy, dy)), fmul(half, half))
         IN Near(fsub(circle.x, Closest(circle.x, rect.x, rect.width)),
                 fsub(circle.y, Closest(circle.y, rect.y, rect.height)),
                 fdiv(FromInt(circle.size), FromInt(2)))

\* p stands exactly on the point (cx, cy), cx and cy integers
AtPoint(p, cx, cy) == ~IsDbl(p) /\ p.x = cx /\ p.y = cy

\* the push computed in doubles, for doubles cx, cy and pushDistance:
\*   dx = x - cx, dy = y - cy, distance = Math.sqrt(dx*dx + dy*dy),
\*   if (distance > 0) { x = cx + (dx / distance) * pushDistance; y = ... }
pushAwayNum(p, cx, cy, pushDistance) ==
    LET Placed(dx, dy, distance) ==
            IF flt(Zero, distance)
            THEN Store(p, fadd(cx, fmul(fdiv(dx, distance), pushDistance)),
                          fadd(cy, fmul(fdiv(dy, distance), pushDistance)))
            ELSE p
        Along(dx, dy) == Placed(dx, dy, fsqrt(fadd(fmul(dx, dx), fmul(dy, dy))))
    IN Along(fsub(NumX(p), cx), fsub(NumY(p), cy))

\* pushAway pushing to the right when the vector has length 0
pushAwayAlways(p, cx, cy, pushDistance) ==
    IF AtPoint(p, cx, cy) THEN [p EXCEPT !.x = cx + pushDistance]
    ELSE IF ~IsDbl(p) /\ p.y = cy
         THEN [p EXCEPT !.x = cx + Sign(p.x - cx) * pushDistance]
    ELSE IF ~IsDbl(p) /\ p.x = cx
         THEN [p EXCEPT !.y = cy + Sign(p.y - cy) * pushDistance]
    ELSE pushAwayNum(p, FromInt(cx), FromInt(cy), FromInt(pushDistance))

\* the player p placed pushDistance away from (cx, cy) along the vector from
\* (cx, cy) to p; unchanged when that vector has length 0.  cx, cy and
\* pushDistance are integers.  From an integer position on the row or the
\* column of (cx, cy) the doubles are exact: distance = |dx|, dx / distance
\* is 1 or -1 and dy / distance is 0
pushAway(p, cx, cy, pushDistance) ==
    IF AtPoint(p, cx, cy) THEN p
    ELSE IF ~IsDbl(p) /\ p.y = cy
         THEN [p EXCEPT !.x = cx + Sign(p.x - cx) * pushDistance]
    ELSE IF ~IsDbl(p) /\ p.x = cx
         THEN [p EXCEPT !.y = cy + Sign(p.y - cy) * pushDistance]
    ELSE pushAwayNum(p, FromInt(cx), FromInt(cy), FromInt(pushDistance))

----------------------------------------------------------------------------
(* updatePlayer *)

Left(k)  == k \cap {"ArrowLeft", "a", "A"} # {}
Right(k) == k \cap {"ArrowRight", "d", "D"} # {}
Up(k)    == k \cap {"ArrowUp", "w", "W"} # {}
Down(k)  == k \cap {"ArrowDown", "s", "S"} # {}

movePlayer(p, k, width, height) ==
    IF ~IsDbl(p)
    THEN LET half == p.size \div 2
             x1 == IF Left(k) THEN Max(half, p.x - playerSpeed) ELSE p.x
             x2 == IF Right(k) THEN Min(width - half, x1 + playerSpeed) ELSE x1
             y1 == IF Up(k) THEN Max(half, p.y - playerSpeed) ELSE p.y
             y2 == IF Down(k) THEN Min(height - half, y1 + playerSpeed) ELSE y1
         IN [p EXCEPT !.x = x2, !.y = y2]
    ELSE LET Back(c, pressed) ==
                 IF pressed
                 THEN fmax(FromInt(p.size \div 2), fsub(c, FromInt(playerSpeed)))
                 ELSE c
             Forth(c, pressed, length) ==
                 IF pressed
                 THEN fmin(FromInt(length - p.size \div 2),
                           fadd(c, FromInt(playerSpeed)))
                 ELSE c
         IN Store(p, Forth(Back(p.x, Left(k)), Right(k), width),
                     Forth(Back(p.y, Up(k)), Down(k), height))

pushFromObstacle(p, obstacle) ==
    IF checkRectCircleCollision(obstacle, p)
    THEN pushAway(p, obstacle.x + obstacle.width \div 2,
                     obstacle.y + obstacle.height \div 2,
                     p.size \div 2 + obstaclePushMargin)
    ELSE p

RECURSIVE obstacleLoop(_, _, _)
obstacleLoop(p, obs, i) ==
    IF i > Len(obs) THEN p
    ELSE obstacleLoop(pushFromObstacle(p, obs[i]), obs, i + 1)

updatePlayer(s) ==
    [s EXCEPT !.player =
        obstacleLoop(movePlayer(s.player, s.keys, s.gameData.canvasWidth,
                                s.gameData.canvasHeight),
                     s.obstacles, 1)]

----------------------------------------------------------------------------
(* updateEnemies *)

\* moveEnemy without the final clamp
moveEnemyNoClamp(enemy, width, height) ==
    LET half == enemy.size \div 2
        x1 == enemy.x + enemy.speedX
        y1 == enemy.y + enemy.speedY
        sx == IF x1 <= half \/ x1 >= width - half THEN -enemy.speedX ELSE enemy.speedX
        sy == IF y1 <= half \/ y1 >= height - half THEN -enemy.speedY ELSE enemy.speedY
    IN [enemy EXCEPT !.x = x1, !.y = y1, !.speedX = sx, !.speedY = sy]

moveEnemy(enemy, width, height) ==
    LET half == enemy.size \div 2
        x1 == enemy.x + enemy.speedX
        y1 == enemy.y + enemy.speedY
        sx == IF x1 <= half \/ x1 >= width - half THEN -enemy.speedX ELSE enemy.speedX
        sy == IF y1 <= half \/ y1 >= height - half THEN -enemy.speedY ELSE enemy.speedY
    IN [enemy EXCEPT !.x = Max(half, Min(width - half, x1)),
                     !.y = Max(half, Min(height - half, y1)),
                     !.speedX = sx,
                     !.speedY = sy]

updateEnemies(s) ==
    [s EXCEPT !.enemies =
        [i \in DOMAIN s.enemies |->
            moveEnemy(s.enemies[i], s.gameData.canvasWidth, s.gameData.canvasHeight)]]

----------------------------------------------------------------------------
(* checkCollisions *)

\* hitEnemy pushing the player to the sum of the two radii plus a margin
hitEnemySizeRelative(s, enemy) ==
    IF checkCircleCollision(s.player, enemy)
    THEN LET s1 == emit([s EXCEPT !.lives = @ - 1], "lives", s.lives - 1)
         IN IF s1.lives <= 0
            THEN emit([s1 EXCEPT !.isRunning = FALSE], "lost", 0)
            ELSE [s1 EXCEPT !.player =
                     pushAway(s1.player, enemy.x, enemy.y,
                              (s1.player.size + enemy.size) \div 2 + obstaclePushMargin)]
    ELSE s

\* hitEnemy reporting the loss before the new number of lives
hitEnemyLostFirst(s, enemy) ==
    IF checkCircleCollision(s.player, enemy)
    THEN LET s1 == [s EXCEPT !.lives = @ - 1]
         IN IF s1.lives <= 0
            THEN emit(emit([s1 EXCEPT !.isRunning = FALSE], "lost", 0),
                      "lives", s1.lives)
            ELSE emit([s1 EXCEPT !.player =
                          pushAway(s1.player, enemy.x, enemy.y, enemyPushDistance)],
                      "lives", s1.lives)
    ELSE s

\* the body of the enemies.forEach callback; its `return` ends this call only
hitEnemy(s, enemy) ==
    IF checkCircleCollision(s.player, enemy)
    THEN LET s1 == emit([s EXCEPT !.lives = @ - 1], "lives", s.lives - 1)
         IN IF s1.lives <= 0
            THEN emit([s1 EXCEPT !.isRunning = FALSE], "lost", 0)
            ELSE [s1 EXCEPT !.player =
                     pushAway(s1.player, enemy.x, enemy.y, enemyPushDistance)]
    ELSE s

RECURSIVE enemyLoop(_, _)
enemyLoop(s, i) ==
    IF i > Len(s.enemies) THEN s
    ELSE enemyLoop(hitEnemy(s, s.enemies[i]), i + 1)

\* collect making the flag follow the overlap: a collectible the player has
\* left is uncollected again
collectWhileOverlapping(s, i) ==
    IF checkCircleCollision(s.player, s.collectibles[i])
    THEN IF s.collectibles[i].collected THEN s
         ELSE emit([s EXCEPT !.collectibles[i].collected = TRUE,
                             !.score = @ + s.collectibles[i].points],
                   "score", s.score + s.collectibles[i].points)
    ELSE [s EXCEPT !.collectibles[i].collected = FALSE]

\* collect without the test of the collected flag
collectNoGuard(s, i) ==
    IF checkCircleCollision(s.player, s.collectibles[i])
    THEN emit([s EXCEPT !.collectibles[i].collected = TRUE,
                        !.score = @ + s.collectibles[i].points],
              "score", s.score + s.collectibles[i].points)
    ELSE s

\* the body of the collectibles.forEach callback
collect(s, i) ==
    IF ~s.collectibles[i].collected /\ checkCircleCollision(s.player, s.collectibles[i])
    THEN emit([s EXCEPT !.collectibles[i].collected = TRUE,
                        !.score = @ + s.collectibles[i].points],
              "score", s.score + s.collectibles[i].points)
    ELSE s

\* the collectible loop ending at the first pickup
RECURSIVE collectibleLoopFirstOnly(_, _)
collectibleLoopFirstOnly(s, i) ==
    IF i > Len(s.collectibles) THEN s
    ELSE IF collect(s, i) # s THEN collect(s, i)
         ELSE collectibleLoopFirstOnly(s, i + 1)

RECURSIVE collectibleLoop(_, _)
collectibleLoop(s, i) ==
    IF i > Len(s.collectibles) THEN s
    ELSE collectibleLoop(collect(s, i), i + 1)

checkCollisions(s) == collectibleLoop(enemyLoop(s, 1), 1)

----------------------------------------------------------------------------
(* checkWinCondition *)

checkWinCondition(s) ==
    IF \A i \in DOMAIN s.collectibles : s.collectibles[i].collected
    THEN emit([s EXCEPT !.isRunning = FALSE], "won", 0)
    ELSE s

----------------------------------------------------------------------------
(* update, render, gameLoop *)

\* update moving the enemies after the collision checks
updateEnemiesLast(s) ==
    checkWinCondition(updateEnemies(checkCollisions(updatePlayer(emit(s, "update", 0)))))

update(s) ==
    checkWinCondition(checkCollisions(updateEnemies(updatePlayer(emit(s, "update", 0)))))

\* render reads the state and draws; it changes nothing of the engine
render(s) == emit(s, "render", 0)

\* requestAnimationFrame: a new handle, now pending
requestAnimationFrame(s) ==
    LET id == CHOOSE i \in 1..(Cardinality(s.pending) + 1) :
                /\ i \notin s.pending
                /\ \A j \in 1..(i - 1) : j \in s.pending
    IN emit([s EXCEPT !.animationId = id, !.pending = @ \cup {id}], "raf", id)

\* gameLoop without its guard
gameLoopNoGuard(s) == requestAnimationFrame(render(update(s)))

gameLoop(s) ==
    IF ~s.isRunning THEN s
    ELSE requestAnimationFrame(render(update(s)))

----------------------------------------------------------------------------
(* start, stop, restart *)

\* start without its guard
startNoGuard(s) == gameLoop([s EXCEPT !.isRunning = TRUE])

start(s) ==
    IF s.isRunning THEN s
    ELSE gameLoop([s EXCEPT !.isRunning = TRUE])

stop(s) ==
    LET t == [s EXCEPT !.isRunning = FALSE]
    IN IF t.animationId # Null
       THEN [t EXCEPT !.pending = @ \ {t.animationId}, !.animationId = Null]
       ELSE t

\* restart doing nothing on an engine that is not running and has no frame
restartNoopWhenIdle(s) ==
    IF ~s.isRunning /\ s.animationId = Null THEN s
    ELSE LET a == initializeGame(stop(s))
             b == emit(a, "score", a.score)
             c == emit(b, "lives", b.lives)
         IN start(c)

\* restart releasing every held key
restartClearsKeys(s) ==
    LET a == initializeGame(stop([s EXCEPT !.keys = {}]))
        b == emit(a, "score", a.score)
        c == emit(b, "lives", b.lives)
    IN start(c)

restart(s) ==
    LET a == initializeGame(stop(s))
        b == emit(a, "score", a.score)
        c == emit(b, "lives", b.lives)
    IN start(c)

----------------------------------------------------------------------------
(* The state machine *)

\* new GameEngine(canvas, gameData): the field initializers, then initializeGame
construct(g) ==
    initializeGame(
        [ gameData |-> g, isRunning |-> FALSE, animationId |-> Null,
          pending |-> {}, player |-> g.player, enemies |-> << >>,
          collectibles |-> << >>, obstacles |-> << >>,
          score |-> 0, lives |-> InitialLives, keys |-> {},
          started |-> FALSE,
          ev |-> << [e |-> "new", v |-> 0, phase |-> "idle"] >> ])

Init ==
    \E g \in Scenarios :
        LET s == construct(g)
        IN /\ gameData = s.gameData
           /\ isRunning = s.isRunning
           /\ animationId = s.animationId
           /\ pending = s.pending
           /\ player = s.player
           /\ enemies = s.enemies
           /\ collectibles = s.collectibles
           /\ obstacles = s.obstacles
           /\ score = s.score
           /\ lives = s.lives
           /\ keys = s.keys
           /\ started = s.started
           /\ ev = s.ev

\* the handler's result is inside the bounds of the model
Bounded(s) ==
    /\ Cardinality(s.pending) <= MaxPending
    /\ s.lives >= -MaxOverkill

\* the handler's result s becomes the state
Step(s) == Bounded(s) /\ Commit(s)

Start == Step(start(Call("start")))

Stop ==
    Commit(stop(Call("stop")))

Restart == Step(restart(Call("restart")))

\* the browser runs one pending frame callback: () => this.gameLoop()
Frame ==
    \E id \in pending :
        Step(gameLoop([Call("frame") EXCEPT !.pending = @ \ {id}]))

KeyDown ==
    \E k \in KeyNames : Commit([Call("keydown") EXCEPT !.keys = @ \cup {k}])

KeyUp ==
    \E k \in KeyNames : Commit([Call("keyup") EXCEPT !.keys = @ \ {k}])

Next == Start \/ Stop \/ Restart \/ Frame \/ KeyDown \/ KeyUp

Spec == Init /\ [][Next]_vars

\* the record r without its field f: an object whose property f is absent, so
\* that reading it gives undefined
Without(r, f) == [h \in DOMAIN r \ {f} |-> r[h]]

\* scenario objects as an untyped caller can hand them over: the three
\* scenarios, and each of them with one array, the player, or one field of
\* the player missing
LoadScenarios ==
    Scenarios
      \cup { Without(g, f) : g \in Scenarios,
                             f \in {"player", "enemies", "collectibles", "obstacles"} }
      \cup { [g EXCEPT !.player = Without(g.player, f)] :
                 g \in Scenarios, f \in {"x", "y", "size"} }

\* the constructor ended by throwing a TypeError: no engine was handed to
\* the caller and no listener was registered
throw(s) == emit(s, "TypeError", 0)

\* new GameEngine(canvas, g) on a scenario object that may lack properties.
\* Reading an absent property gives undefined: g.player.x of an absent player
\* and g.enemies.map of an absent array throw a TypeError, an absent field of
\* the player is copied as undefined (here: left out of the record), and
\* { ...entry } copies the properties an entry has.
newGameEngine(g) ==
    LET s0 == [ gameData |-> g, isRunning |-> FALSE, animationId |-> Null,
                pending |-> {}, player |-> << >>, enemies |-> << >>,
                collectibles |-> << >>, obstacles |-> << >>,
                score |-> 0, lives |-> InitialLives, keys |-> {},
                started |-> FALSE,
                ev |-> << [e |-> "new", v |-> 0, phase |-> "idle"] >> ]
    IN IF "player" \notin DOMAIN g THEN throw(s0)
       ELSE LET s1 == [s0 EXCEPT !.player =
                          [f \in {"x", "y", "size"} \cap DOMAIN g.player |-> g.player[f]]]
            IN IF "enemies" \notin DOMAIN g THEN throw(s1)
               ELSE LET s2 == [s1 EXCEPT !.enemies =
                                  [i \in DOMAIN g.enemies |-> g.enemies[i]]]
                    IN IF "collectibles" \notin DOMAIN g THEN throw(s2)
                       ELSE LET s3 == [s2 EXCEPT !.collectibles =
                                          [i \in DOMAIN g.collectibles |->
                                              [f \in DOMAIN g.collectibles[i] \cup {"collected"} |->
                                                  IF f = "collected" THEN FALSE
                                                  ELSE g.collectibles[i][f]]]]
                            IN IF "obstacles" \notin DOMAIN g THEN throw(s3)
                               ELSE [s3 EXCEPT !.obstacles =
                                        [i \in DOMAIN g.obstacles |-> g.obstacles[i]],
                                               !.score = 0,
                                               !.lives = InitialLives]

\* the host builds an engine from a scenario object it did not validate
LoadInit ==
    \E g \in LoadScenarios :
        LET s == newGameEngine(g)
        IN /\ gameData = s.gameData
           /\ isRunning = s.isRunning
           /\ animationId = s.animationId
           /\ pending = s.pending
           /\ player = s.player
           /\ enemies = s.enemies
           /\ collectibles = s.collectibles
           /\ obstacles = s.obstacles
           /\ score = s.score
           /\ lives = s.lives
           /\ keys = s.keys
           /\ started = s.started
           /\ ev = s.ev

\* the constructor returned an engine: its listeners are registered and its
\* methods can be called. The session is not started here: the logic step
\* on undefined coordinates is outside this model's integers.
Constructed == \A i \in DOMAIN ev : ev[i].e # "TypeError"

LoadNext == Constructed /\ (KeyDown \/ KeyUp \/ Stop)

LoadSpec == LoadInit /\ [][LoadNext]_vars

\* a session on a two-dimensional arena with a fixed set of keys held down:
\* the host constructs the engine, starts it and lets the frames fire
GridInit ==
    \E g \in GridScenarios, k \in SUBSET GridKeys :
        LET s == [construct(g) EXCEPT !.keys = k]
        IN /\ gameData = s.gameData
           /\ isRunning = s.isRunning
           /\ animationId = s.animationId
           /\ pending = s.pending
           /\ player = s.player
           /\ enemies = s.enemies
           /\ collectibles = s.collectibles
           /\ obstacles = s.obstacles
           /\ score = s.score
           /\ lives = s.lives
           /\ keys = s.keys
           /\ started = s.started
           /\ ev = s.ev

GridNext == Start \/ Frame

GridSpec == GridInit /\ [][GridNext]_vars

----------------------------------------------------------------------------
(* Reading the history of the last handler *)

Handler == ev[1].e
EntryPhase == ev[1].phase
Fired(e) == \E i \in DOMAIN ev : ev[i].e = e
Count(e) == Cardinality({i \in DOMAIN ev : ev[i].e = e})

\* the last handler ran a logic step
Ticked == Fired("update")

\* the last handler was a tick of the running session: a frame callback, or
\* the first pass of the loop made by start()
SessionTick == Ticked /\ Handler \in {"frame", "start"}

AllCollected == \A i \in DOMAIN collectibles : collectibles[i].collected

InBounds(p, width, height) ==
    IF ~IsDbl(p)
    THEN /\ p.size \div 2 <= p.x /\ p.x <= width - p.size \div 2
         /\ p.size \div 2 <= p.y /\ p.y <= height - p.size \div 2
    ELSE /\ fle(FromInt(p.size \div 2), p.x)
         /\ fle(p.x, FromInt(width - p.size \div 2))
         /\ fle(FromInt(p.size \div 2), p.y)
         /\ fle(p.y, FromInt(height - p.size \div 2))

\* the simulation state is the one initializeGame builds from the scenario
SimIsInitial ==
    LET f == construct(gameData)
    IN /\ player = f.player /\ enemies = f.enemies
       /\ collectibles = f.collectibles /\ obstacles = f.obstacles
       /\ score = f.score /\ lives = f.lives

\* a freshly constructed engine on scenario g, with the keys k held, after start()
FreshStarted(g, k) == start([construct(g) EXCEPT !.keys = k])

----------------------------------------------------------------------------
(* Claims *)

\* C1 (as claimed): in a tick of a session that has lives left, lives never
\* increases and never falls below 0, however many enemies overlap the player.
C1_LivesNeverNegative ==
    [][ (SessionTick' /\ lives > 0) => (lives' <= lives /\ lives' >= 0) ]_vars

\* C2 (as claimed): in a tick in which lives reaches 0, loss is reported and
\* takes precedence: no collectible is marked collected, score does not change
\* and no win notification fires.
C2_LossTakesPrecedence ==
    [][ (SessionTick' /\ lives > 0 /\ lives' <= 0)
            => /\ Fired("lost")'
               /\ ~Fired("won")'
               /\ score' = score
               /\ collectibles' = collectibles ]_vars

\* C3 (as claimed): in a scenario with no enemies and no collectibles no
\* handler ever fires a win or loss notification, and no logic step clears
\* the running flag.
C3_ObstacleOnlyNeverEnds ==
    (gameData.enemies = << >> /\ gameData.collectibles = << >>)
        => /\ ~Fired("won")
           /\ ~Fired("lost")
           /\ (Ticked => isRunning)

\* C4 (as claimed): the player, who starts inside the arena, lies inside
\* [size/2, width - size/2] x [size/2, height - size/2] after every handler,
\* also after a tick in which an obstacle or an enemy pushed it.
C4_PlayerInBounds ==
    InBounds(player, gameData.canvasWidth, gameData.canvasHeight)

\* C5 (as claimed): a tick of a session that has lives left fires the win
\* notification if and only if every collectible is collected at the end of
\* the tick and lives > 0.
C5_WinIffAllCollectedAndAlive ==
    [][ (SessionTick' /\ lives > 0)
            => (Fired("won")' <=> (AllCollected' /\ lives' > 0)) ]_vars

\* C6 (as claimed): when stop() returns no frame callback is pending (in a
\* scenario that has collectibles), and a frame callback that fires while the
\* session is not running executes no logic step and no render pass.
C6_StopLeavesNoFrame ==
    /\ (Handler = "stop" /\ gameData.collectibles # << >>) => pending = {}
    /\ (Handler = "frame" /\ EntryPhase # "running")
            => (~Ticked /\ ~Fired("render") /\ ~Fired("raf"))

\* C7 (as claimed): when restart() returns, score is 0, lives is 3, no
\* collectible is collected and the player, the enemies and the obstacles
\* have the scenario's values.
C7_RestartRestoresScenario ==
    Handler = "restart"
        => /\ score = 0
           /\ lives = InitialLives
           /\ \A i \in DOMAIN collectibles : ~collectibles[i].collected
           /\ player = gameData.player
           /\ enemies = gameData.enemies
           /\ obstacles = gameData.obstacles

\* C7 (amended): restart() re-initializes from the scenario, which it leaves
\* as it was, and notifies score 0 and lives 3; it then runs the first tick of
\* the new run, so that when it returns the simulation state is the one of a
\* freshly constructed session after start() under the same held keys,
\* whatever the previous run did.
C7_RestartEqualsFreshStart ==
    Handler = "restart"
        => LET f == FreshStarted(gameData, keys)
           IN /\ gameData \in Scenarios
              /\ Len(ev) >= 4
              /\ ev[2] = [e |-> "score", v |-> 0]
              /\ ev[3] = [e |-> "lives", v |-> InitialLives]
              /\ ev[4].e = "update"
              /\ player = f.player
              /\ enemies = f.enemies
              /\ collectibles = f.collectibles
              /\ obstacles = f.obstacles
              /\ score = f.score
              /\ lives = f.lives
              /\ isRunning = f.isRunning

\* restart() called after a run that ended, with a key held, in a scenario
\* whose enemy has moved by the time restart() returns
C7_Witness ==
    /\ Handler = "restart"
    /\ EntryPhase = "stopped"
    /\ keys # {}
    /\ enemies # gameData.enemies

\* C8 (as claimed): the handler stops testing enemies once lives reaches 0:
\* the game-lost notification fires at most once in a tick and no
\* lives-changed notification follows it.
C8_LossHaltsTheStep ==
    /\ Count("lost") <= 1
    /\ \A i, j \in DOMAIN ev :
          (i < j /\ ev[i].e = "lost") => ev[j].e # "lives"

\* C9 (as claimed): stop() and restart() on an idle engine are no-ops: the
\* session stays not running, no logic step runs, no frame is requested and
\* no observer is notified.
C9_IdleStopRestartNoop ==
    (Handler \in {"stop", "restart"} /\ EntryPhase = "idle")
        => (~isRunning /\ Len(ev) = 1 /\ pending = {})

\* C9 (amended): stop() on an idle engine is a no-op; restart() on an idle
\* engine is not: it notifies score 0 and lives 3, runs a logic step and a
\* render pass, requests one frame, and leaves the session running unless
\* that first step ended it.
C9_IdleStopNoopRestartStarts ==
    /\ (Handler = "stop" /\ EntryPhase = "idle")
            => /\ ~isRunning /\ animationId = Null /\ pending = {}
               /\ Len(ev) = 1
               /\ SimIsInitial
    /\ (Handler = "restart" /\ EntryPhase = "idle")
            => /\ Len(ev) >= 4
               /\ ev[2] = [e |-> "score", v |-> 0]
               /\ ev[3] = [e |-> "lives", v |-> InitialLives]
               /\ Count("update") = 1 /\ Count("render") = 1 /\ Count("raf") = 1
               /\ pending = {animationId}
               /\ (isRunning \/ Fired("won") \/ Fired("lost"))

\* restart() called on an idle engine has left the session running
C9_Witness ==
    Handler = "restart" /\ EntryPhase = "idle" /\ isRunning /\ pending # {}

\* C10: start() on a running session runs no logic step, no render pass,
\* requests no frame, notifies no observer and changes no field.
C10_StartWhileRunningNoop ==
    [][ (Handler' = "start" /\ isRunning)
            => /\ Len(ev') = 1
               /\ UNCHANGED <<gameData, isRunning, animationId, pending, player,
                              enemies, collectibles, obstacles, score, lives,
                              keys>> ]_vars

\* start() was called on a running session that has a frame pending
C10_Witness ==
    Handler = "start" /\ EntryPhase = "running" /\ pending # {}

\* the sum of the points of the collected collectibles among the first n
RECURSIVE SumCollected(_, _)
SumCollected(cs, n) ==
    IF n = 0 THEN 0
    ELSE SumCollected(cs, n - 1) + (IF cs[n].collected THEN cs[n].points ELSE 0)

\* C11: once a collectible is collected, no handler but restart() makes it
\* uncollected again.
C11_CollectedStays ==
    [][ Handler' # "restart"
            => \A i \in DOMAIN collectibles :
                  collectibles[i].collected
                      => (i \in DOMAIN collectibles' /\ collectibles'[i].collected) ]_vars

\* a frame ran a logic step while a collected collectible no longer overlaps
\* the player
C11_Witness ==
    /\ Handler = "frame" /\ Ticked
    /\ \E i \in DOMAIN collectibles :
          /\ collectibles[i].collected
          /\ ~checkCircleCollision(player, collectibles[i])

\* C12: in every handler but restart(), score never decreases, changes only in
\* a logic step in which a collectible becomes collected, and equals the sum
\* of the points of the collected collectibles; lives changes only in a logic
\* step in which an enemy overlaps the player, and then it decreases.
C12_ScoreAndLivesChangeOnlyByContact ==
    [][ Handler' # "restart"
            => /\ score' >= score
               /\ score' = SumCollected(collectibles', Len(collectibles'))
               /\ (score' # score
                     => /\ Ticked'
                        /\ \E i \in DOMAIN collectibles :
                              ~collectibles[i].collected /\ collectibles'[i].collected)
               /\ (lives' # lives
                     => /\ Ticked'
                        /\ lives' < lives
                        /\ \E i \in DOMAIN enemies' :
                              checkCircleCollision(updatePlayer(This).player,
                                                   enemies'[i])) ]_vars

\* after a logic step the player has points and has lost a life
C12_Witness ==
    Ticked /\ Handler = "frame" /\ score > 0 /\ lives < InitialLives

\* C13: in the log of every handler each game-lost notification comes right
\* after the lives-changed notification that reports the lives at or below 0,
\* and every score-changed notification comes before every game-won one.
C13_NotificationOrder ==
    /\ \A i \in DOMAIN ev :
          ev[i].e = "lost"
              => (i > 1 /\ ev[i - 1].e = "lives" /\ ev[i - 1].v <= 0)
    /\ \A i, j \in DOMAIN ev :
          (ev[i].e = "score" /\ ev[j].e = "won") => i < j

\* one logic step notified a loss, a pickup and a win
C13_Witness ==
    Ticked /\ Fired("lives") /\ Fired("lost") /\ Fired("score") /\ Fired("won")

\* C14 (as claimed): in a tick that starts with the player inside the arena
\* and both ArrowLeft and ArrowRight held, the movement step leaves the
\* player's x where it was, also at or near a wall.
C14_OppositeKeysCancel ==
    [][ (SessionTick' /\ Left(keys) /\ Right(keys)
           /\ InBounds(player, gameData.canvasWidth, gameData.canvasHeight))
            => movePlayer(player, keys, gameData.canvasWidth,
                          gameData.canvasHeight).x = player.x ]_vars

\* C15 (as claimed): after stop() has torn down a session that was started,
\* the key listeners are gone: a key press or release that follows stop()
\* leaves the key state as it was.
C15_KeysDeafAfterStop ==
    [][ (started /\ Handler = "stop" /\ Handler' \in {"keydown", "keyup"})
            => keys' = keys ]_vars

\* C19: a frame callback of a running session runs one logic step, made of
\* player movement and obstacle pushes, then enemy movement, then the enemy
\* checks, then the collectible checks, then the win check; after it one
\* render pass; after that one frame request, which replaces the fired frame.
C19_FrameIsStepRenderRequest ==
    [][ (Handler' = "frame" /\ isRunning)
            => LET a == updatePlayer(This)
                   b == updateEnemies(a)
                   c == enemyLoop(b, 1)
                   d == collectibleLoop(c, 1)
                   f == checkWinCondition(d)
               IN /\ player' = f.player
                  /\ enemies' = f.enemies
                  /\ collectibles' = f.collectibles
                  /\ obstacles' = f.obstacles
                  /\ score' = f.score
                  /\ lives' = f.lives
                  /\ isRunning' = f.isRunning
                  /\ Len(ev') >= 4
                  /\ ev'[2].e = "update"
                  /\ ev'[Len(ev') - 1].e = "render"
                  /\ ev'[Len(ev')].e = "raf"
                  /\ Count("update")' = 1
                  /\ Count("render")' = 1
                  /\ Count("raf")' = 1
                  /\ animationId' \in pending'
                  /\ Cardinality(pending') = Cardinality(pending) ]_vars

\* a frame callback of a running session, in whose step an enemy moved and
\* hit the player
C19_Witness ==
    /\ Handler = "frame" /\ EntryPhase = "running"
    /\ Fired("lives")
    /\ enemies # gameData.enemies

\* C20: a handler that reports a win or a loss leaves the session not
\* running, and a frame callback that fires while the session is not running
\* changes nothing and notifies nobody.
C20_EndedSessionStaysStill ==
    [][ /\ (Fired("won")' \/ Fired("lost")') => ~isRunning'
        /\ (~isRunning /\ Handler' = "frame")
              => /\ Len(ev') = 1
                 /\ UNCHANGED <<isRunning, animationId, player, enemies,
                                collectibles, obstacles, score, lives, keys>> ]_vars

\* the frame requested by the step that lost the session has fired
C20_Witness ==
    Handler = "frame" /\ EntryPhase = "stopped" /\ lives <= 0 /\ pending = {}

\* the enemy e advanced by its velocity reaches or passes a wall on x / on y
ReachesWallX(e, width) ==
    e.x + e.speedX <= e.size \div 2 \/ e.x + e.speedX >= width - e.size \div 2
ReachesWallY(e, height) ==
    e.y + e.speedY <= e.size \div 2 \/ e.y + e.speedY >= height - e.size \div 2

\* C16: after every tick of the session each enemy is inside the arena on
\* both axes, and each component of its velocity is negated if the advanced
\* position reaches or passes a wall on that axis and is unchanged otherwise.
C16_EnemiesBounceInBounds ==
    [][ SessionTick'
            => \A i \in DOMAIN enemies :
                  /\ InBounds(enemies'[i], gameData.canvasWidth, gameData.canvasHeight)
                  /\ enemies'[i].speedX =
                        IF ReachesWallX(enemies[i], gameData.canvasWidth)
                        THEN -enemies[i].speedX ELSE enemies[i].speedX
                  /\ enemies'[i].speedY =
                        IF ReachesWallY(enemies[i], gameData.canvasHeight)
                        THEN -enemies[i].speedY ELSE enemies[i].speedY
                  /\ Abs(enemies'[i].speedX) = Abs(gameData.enemies[i].speedX)
                  /\ Abs(enemies'[i].speedY) = Abs(gameData.enemies[i].speedY) ]_vars

\* a tick has left a moving enemy on the right wall and on the top wall with
\* both components of its velocity turned against the scenario's
C16_Witness ==
    /\ SessionTick
    /\ \E i \in DOMAIN enemies :
          /\ enemies[i].x = gameData.canvasWidth - enemies[i].size \div 2
          /\ enemies[i].y = enemies[i].size \div 2
          /\ enemies[i].speedX # 0 /\ enemies[i].speedY # 0

\* C17: in a tick in which the moved player is exactly on the centre of the
\* only enemy, the hit is notified, lives goes down by exactly 1 and the
\* collision step leaves the player where the movement step put it.
C17_ConcentricHitSkipsPush ==
    [][ ( /\ SessionTick'
          /\ Len(enemies) = 1
          /\ AtPoint(updatePlayer(This).player, enemies'[1].x, enemies'[1].y) )
            => /\ Count("lives")' = 1
               /\ lives' = lives - 1
               /\ player' = updatePlayer(This).player ]_vars

\* a tick has hit the player on the centre of the enemy and left lives
C17_Witness ==
    /\ SessionTick /\ Fired("lives") /\ lives > 0
    /\ Len(enemies) = 1
    /\ AtPoint(player, enemies[1].x, enemies[1].y)

\* the scenario object has every array and every field of the player
WellFormed(g) ==
    /\ {"player", "enemies", "collectibles", "obstacles"} \subseteq DOMAIN g
    /\ {"x", "y", "size"} \subseteq DOMAIN g.player

\* C18 (as claimed): an engine exists only for a well-formed scenario: the
\* constructor throws on a scenario that lacks an array, the player or a
\* field of the player.
C18_MalformedScenarioRejected ==
    Constructed => WellFormed(gameData)

\* C21 (as claimed): in a scenario that has collectibles, whatever start(),
\* stop(), restart() calls and frames have happened, at most one frame
\* callback is pending, so at most one logic step runs per display frame.
C21_AtMostOneFramePending ==
    gameData.collectibles # << >> => Cardinality(pending) <= 1

\* C25 (as claimed): in a scenario that has collectibles, when restart()
\* returns it has cancelled every frame that was pending, so that only the new run's request is pending, and it has
\* notified score 0, then lives 3, and only then run the first logic step.
C25_RestartStepsInOrder ==
    (Handler = "restart" /\ gameData.collectibles # << >>)
        => /\ Len(ev) >= 6
           /\ ev[2].e = "score" /\ ev[2].v = 0
           /\ ev[3].e = "lives" /\ ev[3].v = InitialLives
           /\ ev[4].e = "update"
           /\ Count("update") = 1
           /\ pending = {animationId}

\* C26: start(), stop(), restart() and frame callbacks, those that end in a
\* win or a loss included, leave the held keys as they were, and the first
\* logic step of the run restart() begins moves the player from its scenario
\* position as a fresh engine with these keys held would.
C26_KeysSurviveRestart ==
    [][ /\ Handler' \in {"start", "stop", "restart", "frame"} => keys' = keys
        /\ Handler' = "restart" => player' = FreshStarted(gameData, keys).player ]_vars

\* restart() was called after a win or a loss with a key held, and its first
\* logic step has moved the player off the scenario position
C26_Witness ==
    /\ Handler = "restart" /\ EntryPhase = "stopped"
    /\ keys # {}
    /\ player.x # gameData.player.x

\* the hits of the enemies es[i..] on a player who stands at p with l lives
\* when the check of es[i] begins: one for each enemy that overlaps the
\* player at its own check.  A hit records the enemy, the position `at` the
\* player was hit at, the lives left after it, and the position `to` the
\* player has after it: pushed when lives are left
RECURSIVE Hits(_, _, _, _)
HitAt(p, q, es, i, l) ==
    << [enemy |-> i, at |-> p, to |-> q, left |-> l - 1] >> \o Hits(q, es, i + 1, l - 1)
Hits(p, es, i, l) ==
    IF i > Len(es) THEN << >>
    ELSE IF checkCircleCollision(p, es[i])
         THEN HitAt(p, IF l - 1 <= 0 THEN p
                       ELSE pushAway(p, es[i].x, es[i].y, enemyPushDistance),
                    es, i, l)
         ELSE Hits(p, es, i + 1, l)

\* where the hits h leave a player who was at m before them
After(m, h) == IF h = << >> THEN m ELSE h[Len(h)].to

\* Exact numbers, to measure the positions that the doubles hold: [neg, m, e]
\* is (-1)^neg * m * 2^e for a natural number m of any size, so a double is
\* an exact number, and sums, differences and products are not rounded
xneg(a) == [a EXCEPT !.neg = ~@]
xmul(a, b) == [neg |-> a.neg # b.neg, m |-> BMul(a.m, b.m), e |-> a.e + b.e]
xaddSigned(na, Ma, nb, Mb, e, c) ==
    [neg |-> IF na = nb \/ c >= 0 THEN na ELSE nb,
     m   |-> IF na = nb THEN BAdd(Ma, Mb)
             ELSE IF c >= 0 THEN BSub(Ma, Mb) ELSE BSub(Mb, Ma),
     e   |-> e]
xaddMant(na, Ma, nb, Mb, e) == xaddSigned(na, Ma, nb, Mb, e, BCmp(Ma, Mb))
xaddAt(a, b, e) ==
    xaddMant(a.neg, BShl(a.m, a.e - e), b.neg, BShl(b.m, b.e - e), e)
xadd(a, b) == xaddAt(a, b, IF a.e < b.e THEN a.e ELSE b.e)
xsub(a, b) == xadd(a, xneg(b))
xsign(a) == IF a.m = << >> THEN 0 ELSE IF a.neg THEN -1 ELSE 1
xle(a, b) == xsign(xsub(a, b)) <= 0

\* x*x + y*y, and the cross and the dot product of (dx, dy) and (px, py)
SumSq(x, y) == xadd(xmul(x, x), xmul(y, y))
Cross(dx, dy, px, py) == xsub(xmul(dx, py), xmul(dy, px))
Dot(dx, dy, px, py) == xadd(xmul(dx, px), xmul(dy, py))

\* the vector from the centre of the enemy c to the position p
OffX(p, c) == xsub(NumX(p), FromInt(c.x))
OffY(p, c) == xsub(NumY(p), FromInt(c.y))

\* (px, py) has length 50 exactly and the direction of (dx, dy) exactly
ExactlyAlong(dx, dy, px, py) ==
    /\ xsign(xsub(SumSq(px, py),
                  xmul(FromInt(enemyPushDistance), FromInt(enemyPushDistance)))) = 0
    /\ xsign(Cross(dx, dy, px, py)) = 0
    /\ xsign(Dot(dx, dy, px, py)) > 0

\* the position q is exactly 50 from the centre of the enemy c, exactly on
\* the ray from that centre through the position m
FiftyExactly(m, q, c) == ExactlyAlong(OffX(m, c), OffY(m, c), OffX(q, c), OffY(q, c))

\* what the rounding of the doubles may add to a distance: 2^-40
Tolerance == [neg |-> FALSE, m |-> << 1 >>, e |-> -40]

\* lo <= |(px, py)| <= hi, and the point (px, py) is no more than Tolerance
\* off the ray through (dx, dy), on the side of (dx, dy)
NearAlong(dx, dy, px, py, lo, hi) ==
    /\ xle(xmul(lo, lo), SumSq(px, py))
    /\ xle(SumSq(px, py), xmul(hi, hi))
    /\ xle(xmul(Cross(dx, dy, px, py), Cross(dx, dy, px, py)),
           xmul(xmul(Tolerance, Tolerance), SumSq(dx, dy)))
    /\ xsign(Dot(dx, dy, px, py)) > 0

\* the position q is 50 from the centre of the enemy c, on the ray from that
\* centre through the position m, both up to Tolerance
FiftyNearly(m, q, c) ==
    NearAlong(OffX(m, c), OffY(m, c), OffX(q, c), OffY(q, c),
              xsub(FromInt(enemyPushDistance), Tolerance),
              xadd(FromInt(enemyPushDistance), Tolerance))

CentreDist4(p, o) ==
    (2 * p.x - (2 * o.x + o.width)) * (2 * p.x - (2 * o.x + o.width))
      + (2 * p.y - (2 * o.y + o.height)) * (2 * p.y - (2 * o.y + o.height))

\* C22 (as claimed): in a tick of a scenario with one obstacle and no enemy,
\* a player whom the movement step leaves overlapping the obstacle and off its
\* centre ends the tick at distance size/2 + 10 from that centre and no
\* longer overlaps the obstacle, whatever the obstacle's width and height; a
\* player on the centre is left where it is.
C22_ObstaclePushSeparates ==
    [][ (SessionTick' /\ Len(obstacles) = 1 /\ enemies = << >>)
            => LET m == movePlayer(player, keys, gameData.canvasWidth,
                                   gameData.canvasHeight)
                   o == obstacles[1]
               IN checkRectCircleCollision(o, m)
                     => IF CentreDist4(m, o) = 0
                        THEN player' = m
                        ELSE /\ CentreDist4(player', o)
                                  = (m.size + 2 * 10) * (m.size + 2 * 10)
                             /\ ~checkRectCircleCollision(o, player') ]_vars

\* the "score" entries of a handler's log, in order
ScoreLog == SelectSeq(ev, LAMBDA x : x.e = "score")

\* the running totals notified when a player at p with score sc meets the
\* collectibles cs[i..] in scenario order
RECURSIVE Pickups(_, _, _, _)
Pickups(p, cs, i, sc) ==
    IF i > Len(cs) THEN << >>
    ELSE IF ~cs[i].collected /\ checkCircleCollision(p, cs[i])
         THEN << sc + cs[i].points >> \o Pickups(p, cs, i + 1, sc + cs[i].points)
         ELSE Pickups(p, cs, i + 1, sc)

\* C24: in a tick every uncollected collectible that overlaps the player is
\* collected, no other flag changes, and score-changed fires once for each
\* pickup, in scenario order, with the running total; the last total is the
\* new score.
C24_EveryOverlappingCollectibleCollected ==
    [][ SessionTick'
            => LET m == enemyLoop(updateEnemies(updatePlayer(This)), 1).player
                   totals == Pickups(m, collectibles, 1, score)
               IN /\ \A i \in DOMAIN collectibles :
                        collectibles'[i].collected
                            = (collectibles[i].collected
                                 \/ checkCircleCollision(m, collectibles[i]))
                  /\ Len(ScoreLog') = Len(totals)
                  /\ \A j \in DOMAIN totals : ScoreLog'[j].v = totals[j]
                  /\ score' = IF totals = << >> THEN score ELSE totals[Len(totals)] ]_vars

\* one tick has collected two collectibles
C24_Witness ==
    /\ SessionTick /\ Count("score") = 2
    /\ Len(collectibles) >= 2
    /\ collectibles[1].collected /\ collectibles[2].collected

====
